---- MODULE Spec2Model ----
(***************************************************************************)
(* Model of pkg/controllers/crds/crds_controller.go: the reconciler that   *)
(* keeps a self-signed CA and a server certificate in one Secret, rotates  *)
(* them ahead of expiry and injects the CA into the conversion webhook of  *)
(* a CustomResourceDefinition.                                             *)
(*                                                                         *)
(* Time is counted in hours.  A key pair is a natural number (the private  *)
(* key and its public half carry the same number).  Byte slices are        *)
(* records: the empty slice, bytes that hold no PEM block, or one PEM      *)
(* block with a type and a DER body.                                       *)
(***************************************************************************)
EXTENDS Integers, Sequences, FiniteSets, TLC

\* ------------------------------------------------------------ constants

certName == "tls.crt"
keyName == "tls.key"
caCertName == "ca.crt"
caKeyName == "ca.key"
BlobNames == {certName, keyName, caCertName, caKeyName}

\* certificates good for 30 days, less than the lookahead interval
certValidityDuration_Short == 30 * 24

\* 10 * 365 * 24 * time.Hour and 90 * 24 * time.Hour, in hours
certValidityDuration == 10 * 365 * 24
lookaheadInterval == 90 * 24
\* begin := now.Add(-1 * time.Hour)
clockSkew == 1

\* ------------------------------------------------------------ bytes, PEM, DER

EmptyBytes == [k |-> "empty"]
RawBytes == [k |-> "raw"]
JunkDER == [asn1 |-> "junk"]

PemBlock(type, der) == [k |-> "pem", type |-> type, body |-> der]

len(b) == IF b.k = "empty" THEN 0 ELSE 1

\* pem.Decode: the first PEM block of the input, or nil when there is none
pemDecode(b) ==
    IF b.k = "pem" THEN [ok |-> TRUE, type |-> b.type, body |-> b.body]
    ELSE [ok |-> FALSE, type |-> "", body |-> JunkDER]

CertDER(c) == [asn1 |-> "cert", cert |-> c]
MarshalPKCS1PrivateKey(key) == [asn1 |-> "pkcs1", key |-> key]
MarshalPKCS8PrivateKey(key) == [asn1 |-> "pkcs8", key |-> key]

NoCert ==
    [pub |-> 0, signer |-> 0, subject |-> "", issuer |-> "", dns |-> {},
     isCA |-> FALSE, certSign |-> FALSE, serverAuth |-> FALSE,
     nb |-> 0, na |-> 0, serial |-> 0]

\* x509.ParseCertificate
ParseCertificate(der) ==
    IF der.asn1 = "cert" THEN [ok |-> TRUE, cert |-> der.cert]
    ELSE [ok |-> FALSE, cert |-> NoCert]

\* x509.ParsePKCS1PrivateKey: only the PKCS#1 encoding parses
ParsePKCS1PrivateKey(der) ==
    IF der.asn1 = "pkcs1" THEN [ok |-> TRUE, key |-> der.key]
    ELSE [ok |-> FALSE, key |-> 0]

\* the private key parser of tls.X509KeyPair: PKCS#1, then PKCS#8
parsePrivateKey(der) ==
    IF der.asn1 \in {"pkcs1", "pkcs8"} THEN [ok |-> TRUE, key |-> der.key]
    ELSE [ok |-> FALSE, key |-> 0]

HasKeyType(type) == type \in {"RSA PRIVATE KEY", "PRIVATE KEY"}

\* tls.X509KeyPair: "" when cert and key parse and the key is the certificate's
X509KeyPair(certPEM, keyPEM) ==
    LET cb == pemDecode(certPEM)
        kb == pemDecode(keyPEM)
        c  == ParseCertificate(cb.body)
        k  == parsePrivateKey(kb.body)
    IN  IF ~cb.ok \/ cb.type # "CERTIFICATE" THEN "tls: no certificate PEM"
        ELSE IF ~kb.ok \/ ~HasKeyType(kb.type) THEN "tls: no key PEM"
        ELSE IF ~c.ok THEN "x509: malformed certificate"
        ELSE IF ~k.ok THEN "tls: failed to parse private key"
        ELSE IF c.cert.pub # k.key THEN "tls: private key does not match public key"
        ELSE ""

\* pemEncode: the certificate and the PKCS#1 key, each in one PEM block
pemEncode(certificateDER, key) ==
    [cert |-> PemBlock("CERTIFICATE", certificateDER),
     key  |-> PemBlock("RSA PRIVATE KEY", MarshalPKCS1PrivateKey(key))]

\* ------------------------------------------------------------ x509 verification

\* Certificate.isValid: the validity window, for the leaf and for the root
InWindow(c, at) == c.nb <= at /\ at <= c.na

\* any CA certificate passes for the signer, whatever key signed c
CheckSignatureFrom_AnyKey(c, parent) == parent.isCA /\ parent.certSign

\* Certificate.CheckSignatureFrom: parent is a CA allowed to sign and its key signed c
CheckSignatureFrom(c, parent) ==
    parent.isCA /\ parent.certSign /\ c.signer = parent.pub

\* Certificate.Verify with one root, a DNS name and a time; "" when a chain is found
\* that allows server authentication
Verify(c, root, dnsName, at) ==
    IF at < c.nb THEN "x509: certificate is not yet valid"
    ELSE IF at > c.na THEN "x509: certificate has expired"
    ELSE IF dnsName \notin c.dns THEN "x509: certificate is not valid for the name"
    ELSE IF c # root /\ (c.issuer # root.subject \/ ~CheckSignatureFrom(c, root)
                         \/ ~InWindow(root, at))
    THEN "x509: certificate signed by unknown authority"
    ELSE IF ~c.serverAuth THEN "x509: certificate specifies an incompatible key usage"
    ELSE ""

Result(valid, err) == [valid |-> valid, err |-> err]

\* the key is paired with the CA certificate instead of the leaf
ValidCert_KeyOfCA(caCert, cert, key, dnsName, at) ==
    IF len(caCert) = 0 \/ len(cert) = 0 \/ len(key) = 0
    THEN Result(FALSE, "empty cert")
    ELSE IF X509KeyPair(caCert, key) # "" THEN Result(FALSE, X509KeyPair(caCert, key))
    ELSE IF Verify(ParseCertificate(pemDecode(cert).body).cert,
                   ParseCertificate(pemDecode(caCert).body).cert, dnsName, at) # ""
    THEN Result(FALSE, "x509: verification failed")
    ELSE Result(TRUE, "")

ValidCert(caCert, cert, key, dnsName, at) ==
    IF len(caCert) = 0 \/ len(cert) = 0 \/ len(key) = 0
    THEN Result(FALSE, "empty cert")
    ELSE
    LET caDer == pemDecode(caCert)
        cac   == ParseCertificate(caDer.body)
        pair  == X509KeyPair(cert, key)
        b     == pemDecode(cert)
        crt   == ParseCertificate(b.body)
    IN  IF ~caDer.ok THEN Result(FALSE, "bad CA cert")
        ELSE IF ~cac.ok THEN Result(FALSE, "x509: malformed certificate")
        ELSE IF pair # "" THEN Result(FALSE, pair)
        ELSE IF ~b.ok THEN Result(FALSE, "")
        ELSE IF ~crt.ok THEN Result(FALSE, "x509: malformed certificate")
        ELSE LET v == Verify(crt.cert, cac.cert, dnsName, at)
             IN  IF v # "" THEN Result(FALSE, v) ELSE Result(TRUE, "")

\* no lookahead: validity is checked at the present time
lookaheadTime_Now(now) == now

\* a lookahead longer than the life of a certificate
lookaheadTime_BeyondValidity(now) == now + certValidityDuration + 1

lookaheadTime(now) == now + lookaheadInterval

\* the error of ValidCert taken for success
validOrFalse_IgnoresErr(r) == IF r.err # "" THEN TRUE ELSE r.valid

\* if err != nil { return false }; return valid
validOrFalse(r) == IF r.err # "" THEN FALSE ELSE r.valid

validServerCert(caCert, cert, key, dnsName, now) ==
    validOrFalse(ValidCert(caCert, cert, key, dnsName, lookaheadTime(now)))

validCACert(cert, key, caName, now) ==
    validOrFalse(ValidCert(cert, cert, key, caName, lookaheadTime(now)))

\* ------------------------------------------------------------ the Secret

\* corev1.Secret.Data: nil, or a map from blob names to bytes
NilData == [nil |-> TRUE, m |-> <<>>]
MapData(m) == [nil |-> FALSE, m |-> m]

\* secret.Data[name]: the zero value (an empty slice) for a missing key
Lookup(data, name) == IF name \in DOMAIN data.m THEN data.m[name] ELSE EmptyBytes
Has(data, name) == name \in DOMAIN data.m

KeyPairArtifacts(cert, key, certPEM, keyPEM) ==
    [Cert |-> cert, Key |-> key, CertPEM |-> certPEM, KeyPEM |-> keyPEM]

NoArtifacts == KeyPairArtifacts(NoCert, 0, EmptyBytes, EmptyBytes)

\* only the leaf is put into the Secret
populateSecret_OnlyLeaf(cert, key, caArtifacts, data) ==
    MapData([n \in (DOMAIN data.m) \cup {certName, keyName} |->
        IF n = certName THEN cert
        ELSE IF n = keyName THEN key
        ELSE data.m[n]])

\* a ca.key that is already in the Secret stays
populateSecret_KeepsCAKey(cert, key, caArtifacts, data) ==
    MapData([n \in (DOMAIN data.m) \cup BlobNames |->
        IF n = caCertName THEN caArtifacts.CertPEM
        ELSE IF n = caKeyName
        THEN (IF n \in DOMAIN data.m THEN data.m[n] ELSE caArtifacts.KeyPEM)
        ELSE IF n = certName THEN cert
        ELSE IF n = keyName THEN key
        ELSE data.m[n]])

populateSecret(cert, key, caArtifacts, data) ==
    MapData([n \in (DOMAIN data.m) \cup BlobNames |->
        IF n = caCertName THEN caArtifacts.CertPEM
        ELSE IF n = caKeyName THEN caArtifacts.KeyPEM
        ELSE IF n = certName THEN cert
        ELSE IF n = keyName THEN key
        ELSE data.m[n]])

NoBuild(err, nilBoth) == [err |-> err, nilBoth |-> nilBoth, art |-> NoArtifacts]

\* nilBoth: the "return nil, err" with err == nil after pem.Decode of the key
\* found no block, neither artifacts nor an error
buildArtifactsFromSecret(data) ==
    LET caPem  == Lookup(data, caCertName)
        keyPem == Lookup(data, caKeyName)
        caDer  == pemDecode(caPem)
        caCert == ParseCertificate(caDer.body)
        keyDer == pemDecode(keyPem)
        key    == ParsePKCS1PrivateKey(keyDer.body)
    IN  IF ~Has(data, caCertName)
        THEN NoBuild("cert secret is not well-formed, missing ca.crt", FALSE)
        ELSE IF ~Has(data, caKeyName)
        THEN NoBuild("cert secret is not well-formed, missing ca.key", FALSE)
        ELSE IF ~caDer.ok THEN NoBuild("bad CA cert", FALSE)
        ELSE IF ~caCert.ok THEN NoBuild("x509: malformed certificate", FALSE)
        ELSE IF ~keyDer.ok THEN NoBuild("", TRUE)
        ELSE IF ~key.ok THEN NoBuild("x509: failed to parse private key", FALSE)
        ELSE [err |-> "", nilBoth |-> FALSE,
              art |-> KeyPairArtifacts(caCert.cert, key.key, caPem, keyPem)]

\* ------------------------------------------------------------ issuance

CAName == "ca"
CAOrganization == "org"

\* a CA template without IsCA
CATemplate_NotCA(begin, end, key) ==
    [pub |-> key, signer |-> key, subject |-> CAName, issuer |-> CAName,
     dns |-> {CAName}, isCA |-> FALSE, certSign |-> TRUE,
     serverAuth |-> TRUE, nb |-> begin, na |-> end, serial |-> 0]

\* the certificate CreateCACert signs: self-signed, for CAName, serial 0
CATemplate(begin, end, key) ==
    [pub |-> key, signer |-> key, subject |-> CAName, issuer |-> CAName,
     dns |-> {CAName}, isCA |-> TRUE, certSign |-> TRUE,
     serverAuth |-> TRUE, nb |-> begin, na |-> end, serial |-> 0]

\* lines 411-420: pemEncode, then the certificate parsed back from its DER
EncodeCA(der, key, pems) ==
    KeyPairArtifacts(ParseCertificate(der).cert, key, pems.cert, pems.key)

\* CreateCACert with the key rsa.GenerateKey returned
CreateCACert(begin, end, key, fail) ==
    IF fail THEN [err |-> "crypto: key generation failed", nilBoth |-> FALSE, art |-> NoArtifacts]
    ELSE [err |-> "", nilBoth |-> FALSE,
          art |-> EncodeCA(CertDER(CATemplate(begin, end, key)), key,
                           pemEncode(CertDER(CATemplate(begin, end, key)), key))]

\* a leaf signed with its own key instead of the CA's
LeafTemplate_SelfSigned(caCert, caKey, begin, end, key, dnsName) ==
    [pub |-> key, signer |-> key, subject |-> dnsName,
     issuer |-> caCert.subject, dns |-> {dnsName}, isCA |-> FALSE,
     certSign |-> FALSE, serverAuth |-> TRUE,
     nb |-> begin, na |-> end, serial |-> 1]

\* the certificate CreateCertPEM signs: for dnsName, signed by caKey in the
\* name of caCert, serial 1
LeafTemplate(caCert, caKey, begin, end, key, dnsName) ==
    [pub |-> key, signer |-> caKey, subject |-> dnsName,
     issuer |-> caCert.subject, dns |-> {dnsName}, isCA |-> FALSE,
     certSign |-> FALSE, serverAuth |-> TRUE,
     nb |-> begin, na |-> end, serial |-> 1]

LeafPEMs(pems) == [err |-> "", cert |-> pems.cert, key |-> pems.key]

\* CreateCertPEM with the key rsa.GenerateKey returned
CreateCertPEM(ca, begin, end, key, dnsName, fail) ==
    IF fail THEN [err |-> "crypto: key generation failed", cert |-> EmptyBytes, key |-> EmptyBytes]
    \* x509.CreateCertificate checks the new signature against the parent's key
    ELSE IF ca.Key # ca.Cert.pub
    THEN [err |-> "x509: signature over certificate returned by signer is invalid",
          cert |-> EmptyBytes, key |-> EmptyBytes]
    ELSE LeafPEMs(pemEncode(CertDER(LeafTemplate(ca.Cert, ca.Key, begin, end, key, dnsName)), key))

\* ------------------------------------------------------------ rotation

\* The faults one pass can meet: key generation or signing fails for the CA or
\* for the leaf, or the store rejects the update of the Secret.
Faults == {"none", "ca", "leaf", "save"}

FaultErrors == {"crypto: key generation failed", "update failed"}

\* writeSecret: populateSecret on the in-memory Secret, then r.Update
writeSecret(cert, key, caArtifacts, data, fault) ==
    [err   |-> IF fault = "save" THEN "update failed" ELSE "",
     data  |-> populateSecret(cert, key, caArtifacts, data),
     saved |-> fault # "save"]

\* what refreshCerts did: its error, the in-memory Secret afterwards, how often
\* the store was asked to save and whether it did, and what was issued
Refreshed(err, data, saveCalls, saved, caIssued, leafIssued, panic, ca, cert, key) ==
    [err |-> err, data |-> data, saveCalls |-> saveCalls, saved |-> saved,
     caIssued |-> caIssued, leafIssued |-> leafIssued, panic |-> panic,
     ca |-> ca, cert |-> cert, key |-> key]

NothingRefreshed(err, data, panic) ==
    Refreshed(err, data, 0, FALSE, FALSE, FALSE, panic, NoArtifacts, EmptyBytes, EmptyBytes)

\* lines 348-351
refreshCertsWrite(refreshCA, ca, leaf, w) ==
    Refreshed(w.err, w.data, 1, w.saved, refreshCA, TRUE, FALSE, ca.art, leaf.cert, leaf.key)

\* lines 344-347
refreshCertsLeaf(refreshCA, ca, leaf, data, fault) ==
    IF leaf.err # ""
    THEN Refreshed(leaf.err, data, 0, FALSE, refreshCA, FALSE, FALSE,
                   ca.art, EmptyBytes, EmptyBytes)
    ELSE refreshCertsWrite(refreshCA, ca, leaf,
                           writeSecret(leaf.cert, leaf.key, ca.art, data, fault))

\* lines 331-344; a nil *KeyPairArtifacts with a nil error is dereferenced by
\* CreateCertPEM
refreshCertsCA(refreshCA, ca, data, dnsName, begin, end, k, fault) ==
    IF ca.err # "" THEN NothingRefreshed(ca.err, data, FALSE)
    ELSE IF ca.nilBoth THEN NothingRefreshed("", data, TRUE)
    ELSE refreshCertsLeaf(refreshCA, ca,
                          CreateCertPEM(ca.art, begin, end, k, dnsName, fault = "leaf"),
                          data, fault)

\* refreshCA is ignored: a new CA on every refresh
refreshCerts_AlwaysCA(refreshCA, data, dnsName, now, k, fault) ==
    refreshCertsCA(TRUE,
                   CreateCACert(now - clockSkew, now + certValidityDuration, k, fault = "ca"),
                   data, dnsName, now - clockSkew, now + certValidityDuration, k + 1, fault)

\* refreshCerts.  data is the in-memory Secret, k the first unused key number.
refreshCerts(refreshCA, data, dnsName, now, k, fault) ==
    IF refreshCA
    THEN refreshCertsCA(TRUE,
                        CreateCACert(now - clockSkew, now + certValidityDuration, k, fault = "ca"),
                        data, dnsName, now - clockSkew, now + certValidityDuration, k + 1, fault)
    ELSE refreshCertsCA(FALSE, buildArtifactsFromSecret(data),
                        data, dnsName, now - clockSkew, now + certValidityDuration, k, fault)

\* line 295: the CA and the leaf are both replaced
needCA(data, now) ==
    data.nil \/ ~validCACert(Lookup(data, caCertName), Lookup(data, caKeyName), CAName, now)

\* the stored leaf is taken for valid unseen
needLeaf_Never(data, dnsName, now) == FALSE

\* line 309: only the leaf is replaced
needLeaf(data, dnsName, now) ==
    ~validServerCert(Lookup(data, caCertName), Lookup(data, certName),
                     Lookup(data, keyName), dnsName, now)

\* os.Exit(0) whether or not the refresh succeeded
exitAfterRefresh_AlsoOnError(restart, refreshErr) == restart

\* lines 302-305 and 316-319: os.Exit(0) after a refresh that succeeded
exitAfterRefresh(restart, refreshErr) == restart /\ refreshErr = ""

\* lines 295 and 309: which certificates the pass replaces
rotationBranch(data, dnsName, now) ==
    IF needCA(data, now) THEN "full"
    ELSE IF needLeaf(data, dnsName, now) THEN "leaf"
    ELSE "none"

\* os.Exit after the two branches instead of inside them
refreshOutcome_ExitAnyBranch(branch, rc, restart) ==
    [branch |-> branch, rc |-> rc, need |-> rc.err = "", err |-> "",
     exit |-> ~rc.panic /\ exitAfterRefresh(restart, rc.err)]

\* "return true, nil" also where refreshCerts failed
refreshOutcome_NeedAlways(branch, rc, restart) ==
    [branch |-> branch, rc |-> rc, need |-> TRUE, err |-> "",
     exit |-> branch # "none" /\ ~rc.panic /\ exitAfterRefresh(restart, rc.err)]

\* lines 297-306, 311-320 and 323: refreshCerts' error is dropped; need and err
\* are the two values returned, exit says that os.Exit(0) was called
refreshOutcome(branch, rc, restart) ==
    [branch |-> branch,
     rc     |-> rc,
     need   |-> rc.err = "",
     err    |-> "",
     exit   |-> branch # "none" /\ ~rc.panic /\ exitAfterRefresh(restart, rc.err)]

refreshBranch(branch, data, dnsName, now, k, fault, restart) ==
    IF branch = "none"
    THEN refreshOutcome(branch, NothingRefreshed("", data, FALSE), restart)
    ELSE refreshOutcome(branch, refreshCerts(branch = "full", data, dnsName, now, k, fault),
                        restart)

\* refreshCertIfNeeded.  branch names the path taken, rc is what refreshCerts
\* did on it.
refreshCertIfNeeded(data, dnsName, now, k, fault, restart) ==
    refreshBranch(rotationBranch(data, dnsName, now), data, dnsName, now, k, fault, restart)

\* ------------------------------------------------------------ the CRD

CrdResources == <<"externalsecrets", "legacystores", "secretstores">>
\* the CustomResourceDefinitions of the cluster: the listed ones (legacystores
\* has no conversion webhook) and one that is not listed
CrdNames == {"externalsecrets", "legacystores", "secretstores", "widgets"}

\* every name passes for listed
contains_Any(s, e) == TRUE

contains(s, e) == \E i \in 1..Len(s) : s[i] = e

NoBundle == [k |-> "none"]
\* base64.StdEncoding.EncodeToString
Base64(bytes) == [k |-> "base64", of |-> bytes]

\* the part of the unstructured CRD the controller reads and writes:
\* spec.conversion.webhook.clientConfig, its service and its caBundle
CrdObject(found, name, namespace, caBundle) ==
    [clientConfig |-> found, svcName |-> name, svcNamespace |-> namespace,
     caBundle |-> caBundle]

FieldNotFound == "conversion.webhook.clientConfig field not found in CustomResourceDefinition"

\* the service is written without a look at clientConfig
injectSvcToConversionWebhook_NoCheck(crd, service) ==
    [err |-> "",
     crd |-> [crd EXCEPT !.svcName = service.Name, !.svcNamespace = service.Namespace]]

injectSvcToConversionWebhook(crd, service) ==
    IF ~crd.clientConfig THEN [err |-> FieldNotFound, crd |-> crd]
    ELSE [err |-> "",
          crd |-> [crd EXCEPT !.svcName = service.Name, !.svcNamespace = service.Namespace]]

injectCertToConversionWebhook(crd, certPem) ==
    IF ~crd.clientConfig THEN [err |-> FieldNotFound, crd |-> crd]
    ELSE [err |-> "", crd |-> [crd EXCEPT !.caBundle = Base64(certPem)]]

Service(name, namespace) == [Name |-> name, Namespace |-> namespace]

\* fmt.Sprintf("%v.%v.svc", Name, Namespace)
DnsNameOf(service) == service.Name \o "." \o service.Namespace \o ".svc"

\* ------------------------------------------------------------ state

VARIABLES
    now,        \* time.Now(), in hours
    ticks,      \* how often the clock has been advanced
    secret,     \* Data of the one Secret that matches SecretLabels, as stored
    crds,       \* the stored CustomResourceDefinitions, by name
    restart,    \* Reconciler.RestartOnSecretRefresh
    dnsName,    \* Reconciler.dnsName
    nextKey,    \* the number of the next key rsa.GenerateKey returns
    running,    \* FALSE once os.Exit was called, until the pod is started again
    pc,         \* per worker: where its Reconcile call stands
    loc,        \* per worker: the objects its updateCRD call holds in memory
    pass,       \* per worker: what its current or last pass did (history)
    prev,       \* the rotation step that ran last (history)
    issuedCAs,  \* SpecCert: the CA artifacts CreateCACert has returned
    issuedLeaves, \* SpecCert: the leaves CreateCertPEM has returned
    verdict     \* SpecCert: the last call of validServerCert and what it gave

ctrlVars == <<now, ticks, secret, crds, restart, dnsName, nextKey, running, pc, loc, pass, prev>>
certVars == <<issuedCAs, issuedLeaves, verdict>>
vars == <<ctrlVars, certVars>>

Procs == {"w1", "w2"}

\* bounds of the model
MaxTicks == 2
MaxKeys == 4

\* keys that exist before the controller issues any: the stored CA's, the stored
\* leaf's and a foreign one
StoredKeys == {1, 2, 3}
FirstKey == Cardinality(StoredKeys) + 1

\* ------------------------------------------------------------ what the store may hold at first

Absent == [k |-> "absent"]

StoredCA(name, na, key) ==
    [pub |-> key, signer |-> key, subject |-> name, issuer |-> name,
     dns |-> {name}, isCA |-> TRUE, certSign |-> TRUE, serverAuth |-> TRUE,
     nb |-> 0 - 24, na |-> na, serial |-> 0]

StoredLeaf(host, na, key, signer) ==
    [pub |-> key, signer |-> signer, subject |-> host, issuer |-> CAName,
     dns |-> {host}, isCA |-> FALSE, certSign |-> FALSE, serverAuth |-> TRUE,
     nb |-> 0 - 24, na |-> na, serial |-> 1]

Host1 == DnsNameOf(Service("webhook", "eso"))
Host2 == DnsNameOf(Service("webhook2", "eso"))

\* expiring in 10 days, expiring exactly at the lookahead time, good for 5 years
InitNotAfter == {10 * 24, lookaheadInterval, 5 * 365 * 24}
LongNotAfter == 5 * 365 * 24

CertPEM(c) == PemBlock("CERTIFICATE", CertDER(c))

StoredCACerts ==
    {Absent, EmptyBytes, RawBytes, PemBlock("CERTIFICATE", JunkDER),
     CertPEM(StoredCA("other-ca", LongNotAfter, 1))}
    \cup {CertPEM(StoredCA(CAName, na, 1)) : na \in InitNotAfter}

StoredCAKeys ==
    {Absent, RawBytes,
     PemBlock("RSA PRIVATE KEY", MarshalPKCS1PrivateKey(1)),
     PemBlock("PRIVATE KEY", MarshalPKCS8PrivateKey(1)),
     PemBlock("RSA PRIVATE KEY", MarshalPKCS1PrivateKey(3))}

StoredCerts ==
    {Absent, RawBytes,
     CertPEM(StoredLeaf(Host2, LongNotAfter, 2, 1)),
     CertPEM(StoredLeaf(Host1, LongNotAfter, 2, 3))}
    \cup {CertPEM(StoredLeaf(Host1, na, 2, 1)) : na \in InitNotAfter}

StoredKeyBlobs ==
    {Absent,
     PemBlock("RSA PRIVATE KEY", MarshalPKCS1PrivateKey(2)),
     PemBlock("RSA PRIVATE KEY", MarshalPKCS1PrivateKey(3))}

\* the Secret with the blobs given, the absent ones left out of the map
DataOf(caCert, caKey, cert, key) ==
    LET all == [n \in BlobNames |->
                  IF n = caCertName THEN caCert
                  ELSE IF n = caKeyName THEN caKey
                  ELSE IF n = certName THEN cert ELSE key]
    IN  MapData([n \in {x \in BlobNames : all[x] # Absent} |-> all[n]])

\* the bundle a healthy controller has left behind
GoodCACert == CertPEM(StoredCA(CAName, LongNotAfter, 1))
GoodCAKey == PemBlock("RSA PRIVATE KEY", MarshalPKCS1PrivateKey(1))
GoodCert == CertPEM(StoredLeaf(Host1, LongNotAfter, 2, 1))
GoodKey == PemBlock("RSA PRIVATE KEY", MarshalPKCS1PrivateKey(2))

\* The Secret at first: nil Data, an empty map, the good bundle, every bundle
\* with one blob of the good bundle replaced, and the bundles with both
\* certificates near expiry or with a PKCS#8 CA key beside a leaf near expiry.
InitSecrets ==
    {NilData, DataOf(Absent, Absent, Absent, Absent)}
    \cup {DataOf(a, GoodCAKey, GoodCert, GoodKey) : a \in StoredCACerts}
    \cup {DataOf(GoodCACert, b, GoodCert, GoodKey) : b \in StoredCAKeys}
    \cup {DataOf(GoodCACert, GoodCAKey, c, GoodKey) : c \in StoredCerts}
    \cup {DataOf(GoodCACert, GoodCAKey, GoodCert, d) : d \in StoredKeyBlobs}
    \cup {DataOf(CertPEM(StoredCA(CAName, na, 1)), GoodCAKey,
                 CertPEM(StoredLeaf(Host1, na, 2, 1)), GoodKey) : na \in InitNotAfter}
    \cup {DataOf(GoodCACert, PemBlock("PRIVATE KEY", MarshalPKCS8PrivateKey(1)),
                 CertPEM(StoredLeaf(Host1, na, 2, 1)), GoodKey) : na \in InitNotAfter}

NoService == Service("", "")

InitCrds ==
    [n \in CrdNames |-> CrdObject(n # "legacystores", "", "", NoBundle)]

NoRefresh ==
    [branch |-> "none", rc |-> NothingRefreshed("", NilData, FALSE),
     need |-> FALSE, err |-> "", exit |-> FALSE]

NoLoc == [req |-> "", secret |-> NilData, crd |-> CrdObject(FALSE, "", "", NoBundle),
          need |-> FALSE]

\* pre and crd0 are the Secret and the CRD as stored when the pass began, sent
\* is the CRD the pass handed to r.Update, again says that the rotation step
\* ran on what the step before it left, at the same time, for the same name,
\* afterExit that the rotation step before it ended in os.Exit and this pass is
\* for the same CRD and name and read the Secret that step left.  nSvc and nSec
\* are the lengths of the lists the two List calls of the pass returned, NotListed
\* for a List call the pass did not make.
\* stage: "none" before the worker's first pass, "loaded" after the reads of
\* updateCRD, "refreshed" after refreshCertIfNeeded, "returned" when Reconcile
\* returned, "exited" when the pass ended in os.Exit
NotListed == 0 - 1

NoPass ==
    [stage |-> "none", req |-> "", err |-> "", pre |-> NilData, dns |-> "", at |-> 0,
     nSvc |-> NotListed, nSec |-> NotListed,
     r |-> NoRefresh, again |-> FALSE, afterExit |-> FALSE, crdUpdated |-> FALSE,
     crd0 |-> CrdObject(FALSE, "", "", NoBundle),
     sent |-> CrdObject(FALSE, "", "", NoBundle)]

NoPrev ==
    [valid |-> FALSE, at |-> 0, dns |-> "", err |-> "", after |-> NilData,
     exit |-> FALSE, req |-> ""]

NoVerdict ==
    [set |-> FALSE, caCert |-> EmptyBytes, cert |-> EmptyBytes, key |-> EmptyBytes,
     dnsName |-> "", now |-> 0, res |-> Result(FALSE, ""), ok |-> FALSE]

Init ==
    /\ now = 0
    /\ ticks = 0
    /\ secret \in InitSecrets
    /\ crds = InitCrds
    /\ restart \in BOOLEAN
    /\ dnsName = ""
    /\ nextKey = FirstKey
    /\ running = TRUE
    /\ pc = [p \in Procs |-> "idle"]
    /\ loc = [p \in Procs |-> NoLoc]
    /\ pass = [p \in Procs |-> NoPass]
    /\ prev = NoPrev
    /\ issuedCAs = {}
    /\ issuedLeaves = {}
    /\ verdict = NoVerdict

\* ------------------------------------------------------------ actions

\* what r.List returns for SvcLabels, and how many Secrets match SecretLabels
ServiceLists ==
    {<<>>, <<Service("webhook", "eso")>>,
     <<Service("webhook", "eso"), Service("webhook2", "eso")>>}
SecretCounts == {0, 1, 2}

KeysLeft == nextKey + 1 <= FirstKey + MaxKeys - 1

Return(p, req, err, updated, sent) ==
    /\ pc' = [pc EXCEPT ![p] = "idle"]
    /\ loc' = [loc EXCEPT ![p] = NoLoc]
    /\ pass' = [pass EXCEPT ![p] =
                  [@ EXCEPT !.stage = "returned", !.req = req, !.err = err,
                            !.crdUpdated = updated, !.sent = sent]]

\* Reconcile up to the call of refreshCertIfNeeded: the name filter, the two
\* List calls, the Get of the CRD and injectSvcToConversionWebhook
Load(p, req, svcList, nSecrets) ==
    /\ running
    /\ pc[p] = "idle"
    /\ KeysLeft
    /\ LET inj == injectSvcToConversionWebhook(crds[req], svcList[1])
           fresh == [NoPass EXCEPT !.pre = secret, !.crd0 = crds[req]]
       IN  IF ~contains(CrdResources, req)
           THEN /\ pc' = pc /\ loc' = loc
                /\ pass' = [pass EXCEPT ![p] = [fresh EXCEPT !.stage = "returned", !.req = req]]
                /\ UNCHANGED dnsName
           ELSE IF Len(svcList) # 1
           THEN /\ pc' = pc /\ loc' = loc
                /\ pass' = [pass EXCEPT ![p] =
                     [fresh EXCEPT !.stage = "returned", !.req = req,
                                   !.nSvc = Len(svcList),
                                   !.err = "multiple services match labels"]]
                /\ UNCHANGED dnsName
           ELSE IF nSecrets # 1
           THEN /\ pc' = pc /\ loc' = loc
                /\ pass' = [pass EXCEPT ![p] =
                     [fresh EXCEPT !.stage = "returned", !.req = req,
                                   !.nSvc = Len(svcList), !.nSec = nSecrets,
                                   !.err = "multiple secrets match labels"]]
                /\ UNCHANGED dnsName
           ELSE IF inj.err # ""
           THEN /\ pc' = pc /\ loc' = loc
                /\ pass' = [pass EXCEPT ![p] =
                     [fresh EXCEPT !.stage = "returned", !.req = req,
                                   !.nSvc = Len(svcList), !.nSec = nSecrets,
                                   !.err = inj.err]]
                /\ UNCHANGED dnsName
           ELSE /\ dnsName' = DnsNameOf(svcList[1])
                /\ pc' = [pc EXCEPT ![p] = "loaded"]
                /\ loc' = [loc EXCEPT ![p] =
                     [req |-> req, secret |-> secret, crd |-> inj.crd, need |-> FALSE]]
                /\ pass' = [pass EXCEPT ![p] =
                     [fresh EXCEPT !.stage = "loaded", !.req = req,
                                   !.nSvc = Len(svcList), !.nSec = nSecrets,
                                   !.dns = DnsNameOf(svcList[1])]]
    /\ UNCHANGED <<now, ticks, secret, crds, restart, nextKey, running, prev, certVars>>

Count(b) == IF b THEN 1 ELSE 0

\* the step of a worker whose refreshCertIfNeeded call gave r
RefreshStep(p, r) ==
    LET stored == IF r.rc.saved THEN r.rc.data ELSE secret
        seen == [pass[p] EXCEPT
                   !.at = now, !.r = r,
                   !.again = /\ prev.valid /\ prev.err \notin FaultErrors
                             /\ prev.at = now /\ prev.dns = dnsName
                             /\ prev.after = loc[p].secret,
                   !.afterExit = /\ prev.exit /\ prev.req = loc[p].req
                                 /\ prev.dns = dnsName /\ prev.after = loc[p].secret]
    IN  /\ secret' = stored
        \* a key dropped with a failed pass is never seen again: its number
        \* is handed out again
        /\ nextKey' = IF r.rc.saved
                      THEN nextKey + Count(r.rc.caIssued) + Count(r.rc.leafIssued)
                      ELSE nextKey
        /\ prev' = [valid |-> TRUE, at |-> now, dns |-> dnsName,
                    err |-> IF r.rc.panic THEN "panic" ELSE r.rc.err, after |-> stored,
                    exit |-> r.exit, req |-> loc[p].req]
        /\ IF r.exit \/ r.rc.panic
           THEN /\ running' = FALSE
                /\ pc' = [q \in Procs |-> "idle"]
                /\ loc' = [q \in Procs |-> NoLoc]
                /\ pass' = [pass EXCEPT ![p] = [seen EXCEPT !.stage = "exited"]]
           ELSE IF r.err # ""
           THEN /\ running' = running
                /\ pc' = [pc EXCEPT ![p] = "idle"]
                /\ loc' = [loc EXCEPT ![p] = NoLoc]
                /\ pass' = [pass EXCEPT ![p] =
                              [seen EXCEPT !.stage = "returned", !.err = r.err]]
           ELSE /\ running' = running
                /\ pc' = [pc EXCEPT ![p] = "refreshed"]
                /\ loc' = [loc EXCEPT ![p] =
                             [@ EXCEPT !.secret = r.rc.data, !.need = r.need]]
                /\ pass' = [pass EXCEPT ![p] = [seen EXCEPT !.stage = "refreshed"]]

\* r.Update of a Secret that was read before another writer changed it: the
\* store turns the update down (the object's resourceVersion is no longer the
\* stored one)
StoreFault(p, fault) ==
    IF fault = "none" /\ loc[p].secret # secret THEN "save" ELSE fault

\* refreshCertIfNeeded on the Secret read by Load, with the save of the Secret
\* and os.Exit
Refresh(p, fault) ==
    /\ running
    /\ pc[p] = "loaded"
    /\ RefreshStep(p, refreshCertIfNeeded(loc[p].secret, dnsName, now, nextKey,
                                          StoreFault(p, fault), restart))
    /\ UNCHANGED <<now, ticks, crds, restart, dnsName, certVars>>

\* lines 163-175 for the artifacts b built from the in-memory Secret and the
\* CRD inj with their CA injected
FinishStep(p, b, inj, updateFails) ==
    IF loc[p].need /\ b.err # "" THEN Return(p, loc[p].req, b.err, FALSE, NoPass.sent) /\ crds' = crds
    ELSE IF loc[p].need /\ inj.err # ""
    THEN Return(p, loc[p].req, inj.err, FALSE, NoPass.sent) /\ crds' = crds
    ELSE IF updateFails
    THEN Return(p, loc[p].req, "update failed", FALSE, NoPass.sent) /\ crds' = crds
    ELSE IF loc[p].need
    THEN Return(p, loc[p].req, "", TRUE, inj.crd) /\ crds' = [crds EXCEPT ![loc[p].req] = inj.crd]
    ELSE Return(p, loc[p].req, "", TRUE, loc[p].crd)
         /\ crds' = [crds EXCEPT ![loc[p].req] = loc[p].crd]

FinishBuilt(p, b, updateFails) ==
    IF loc[p].need /\ b.err = "" /\ b.nilBoth
    \* artifacts.CertPEM on a nil pointer
    THEN /\ running' = FALSE
         /\ pc' = [q \in Procs |-> "idle"]
         /\ loc' = [q \in Procs |-> NoLoc]
         /\ pass' = [pass EXCEPT ![p] = [@ EXCEPT !.stage = "exited"]]
         /\ crds' = crds
    ELSE /\ running' = running
         /\ FinishStep(p, b, injectCertToConversionWebhook(loc[p].crd, b.art.CertPEM),
                       updateFails)

\* the rest of updateCRD: the CA of the in-memory Secret goes into the CRD when
\* need is set, then the CRD is updated
Finish(p, updateFails) ==
    /\ running
    /\ pc[p] = "refreshed"
    /\ FinishBuilt(p, buildArtifactsFromSecret(loc[p].secret), updateFails)
    /\ UNCHANGED <<now, ticks, secret, restart, dnsName, nextKey, prev, certVars>>

\* the supervisor starts the pod again after os.Exit
Restart ==
    /\ ~running
    /\ running' = TRUE
    /\ dnsName' = ""
    /\ UNCHANGED <<now, ticks, secret, crds, restart, nextKey, pc, loc, pass, prev, certVars>>

\* the clock advances between passes (a pass takes far less than an hour): by
\* an hour, or by the time that takes a certificate issued now to the last hour
\* at which it still passes the lookahead check
TickSteps == {1, certValidityDuration - lookaheadInterval}

Tick(d) ==
    /\ ticks < MaxTicks
    /\ \A p \in Procs : pc[p] = "idle"
    /\ ticks' = ticks + 1
    /\ now' = now + d
    /\ UNCHANGED <<secret, crds, restart, dnsName, nextKey, running, pc, loc, pass, prev, certVars>>

\* The work queue hands a CRD to one worker at a time.  The first worker takes
\* the requests for all CRDs but one, the second worker the requests for that
\* one.
Requests(p) == IF p = "w1" THEN CrdNames \ {"secretstores"} ELSE {"secretstores"}

Worker(p) ==
    \/ \E req \in Requests(p), svcList \in ServiceLists, n \in SecretCounts :
          Load(p, req, svcList, n)
    \/ \E fault \in Faults : Refresh(p, fault)
    \/ \E f \in BOOLEAN : Finish(p, f)

Env ==
    \/ Restart
    \/ \E d \in TickSteps : Tick(d)

\* one worker: the controller's default, MaxConcurrentReconciles = 1
Next == Worker("w1") \/ Env

Spec == Init /\ [][Next]_vars

\* The controller with RestartOnSecretRefresh either way, while the service and
\* the Secret are found and the store accepts every update: the supervisor
\* starts the pod again after os.Exit, the started controller is handed every
\* CRD, and a pass that has begun runs to its end.
GoodServices == <<Service("webhook", "eso")>>

NextLive ==
    \/ \E req \in Requests("w1") : Load("w1", req, GoodServices, 1)
    \/ Refresh("w1", "none")
    \/ Finish("w1", FALSE)
    \/ Restart

FairLive ==
    /\ \A req \in Requests("w1") : WF_vars(Load("w1", req, GoodServices, 1))
    /\ WF_vars(Refresh("w1", "none"))
    /\ WF_vars(Finish("w1", FALSE))
    /\ WF_vars(Restart)

SpecLive == Init /\ [][NextLive]_vars /\ FairLive

\* Two workers (MaxConcurrentReconciles = 2) whose passes interleave within one
\* hour, started on a Secret that is empty, has an expiring leaf, has an expiring
\* CA, is good, has a leaf that another key than the CA's signed, or has a CA
\* key that is not the CA certificate's.
ConcSecrets ==
    {NilData,
     DataOf(GoodCACert, GoodCAKey, CertPEM(StoredLeaf(Host1, LongNotAfter, 2, 3)), GoodKey),
     DataOf(GoodCACert, PemBlock("RSA PRIVATE KEY", MarshalPKCS1PrivateKey(3)),
            GoodCert, GoodKey),
     DataOf(GoodCACert, GoodCAKey, CertPEM(StoredLeaf(Host1, 10 * 24, 2, 1)), GoodKey),
     DataOf(CertPEM(StoredCA(CAName, 10 * 24, 1)), GoodCAKey,
            CertPEM(StoredLeaf(Host1, 10 * 24, 2, 1)), GoodKey),
     DataOf(GoodCACert, GoodCAKey, GoodCert, GoodKey)}

InitConc == Init /\ secret \in ConcSecrets

NextConc == Worker("w1") \/ Worker("w2") \/ Restart

SpecConc == InitConc /\ [][NextConc]_vars

\* ------------------------------------------------------------ properties

\* the pass of worker p has run refreshCertIfNeeded
DidRefresh(p) ==
    pass[p].stage \in {"refreshed", "exited"}
    \/ (pass[p].stage = "returned" /\ pass[p].dns # "")

\* the Secret the pass of p read, its blobs, and the certificates in them
Pre(p) == pass[p].pre
Blob(data, name) == Lookup(data, name)
CertIn(bytes) == ParseCertificate(pemDecode(bytes).body)

\* the stored CA is not valid for CAName at the lookahead time of the pass
CAInvalidAt(data, t) ==
    data.nil \/ ~ValidCert(Blob(data, caCertName), Blob(data, caCertName),
                           Blob(data, caKeyName), CAName, t + lookaheadInterval).valid

\* the stored leaf is not valid for the hostname at the lookahead time
LeafInvalidAt(data, host, t) ==
    ~ValidCert(Blob(data, caCertName), Blob(data, certName), Blob(data, keyName),
               host, t + lookaheadInterval).valid

\* refreshCerts of the pass ended without an error
Succeeded(p) == pass[p].r.rc.err = "" /\ ~pass[p].r.rc.panic

AllChanged(old, new) == \A n \in BlobNames : Blob(old, n) # Blob(new, n)

\* C1: a pass that finds no bundle, or a CA that is not valid for CAName 90 days
\* ahead, takes the full rotation; when that rotation meets no error (failed
\* passes are the subject of C6) it has issued a CA and a leaf and saved them,
\* all four stored blobs differ from what the pass read, and the stored leaf
\* verifies against the stored CA for the hostname of the pass.
C1_FullRotation ==
    \A p \in Procs :
        (DidRefresh(p) /\ CAInvalidAt(Pre(p), pass[p].at)) =>
            /\ pass[p].r.branch = "full"
            /\ Succeeded(p) =>
                 /\ pass[p].r.rc.caIssued /\ pass[p].r.rc.leafIssued /\ pass[p].r.rc.saved
                 /\ AllChanged(Pre(p), secret)
                 /\ CertIn(Blob(secret, certName)).cert.signer
                      = CertIn(Blob(secret, caCertName)).cert.pub
                 /\ ValidCert(Blob(secret, caCertName), Blob(secret, certName),
                              Blob(secret, keyName), pass[p].dns,
                              pass[p].at + lookaheadInterval) = Result(TRUE, "")

\* a full rotation replaced a CA that was still parsable but about to expire
C1_Witness ==
    \E p \in Procs :
        /\ DidRefresh(p) /\ Succeeded(p) /\ pass[p].r.branch = "full"
        /\ CertIn(Blob(Pre(p), caCertName)).ok
        /\ CertIn(Blob(Pre(p), caCertName)).cert.na = 10 * 24
        /\ CertIn(Blob(secret, caCertName)).cert.na = pass[p].at + certValidityDuration

\* C2: a pass that finds the CA valid 90 days ahead and the leaf not valid for
\* the hostname 90 days ahead takes the leaf-only rotation; when that rotation
\* meets no error, ca.crt and ca.key are stored as the pass read them, tls.crt
\* and tls.key are new, and the new leaf is signed by the CA that was kept.
C2_LeafOnly ==
    \A p \in Procs :
        (/\ DidRefresh(p)
         /\ ~CAInvalidAt(Pre(p), pass[p].at)
         /\ LeafInvalidAt(Pre(p), pass[p].dns, pass[p].at)) =>
            /\ pass[p].r.branch = "leaf"
            /\ ~pass[p].r.rc.caIssued
            /\ Succeeded(p) =>
                 /\ pass[p].r.rc.leafIssued /\ pass[p].r.rc.saved
                 /\ Blob(secret, caCertName) = Blob(Pre(p), caCertName)
                 /\ Blob(secret, caKeyName) = Blob(Pre(p), caKeyName)
                 /\ Blob(secret, certName) # Blob(Pre(p), certName)
                 /\ Blob(secret, keyName) # Blob(Pre(p), keyName)
                 /\ CertIn(Blob(secret, certName)).cert.signer
                      = CertIn(Blob(Pre(p), caCertName)).cert.pub
                 /\ ValidCert(Blob(Pre(p), caCertName), Blob(secret, certName),
                              Blob(secret, keyName), pass[p].dns,
                              pass[p].at + lookaheadInterval) = Result(TRUE, "")

\* a leaf-only rotation replaced a leaf that was 10 days from expiry under a CA
\* good for 5 more years
C2_Witness ==
    \E p \in Procs :
        /\ DidRefresh(p) /\ Succeeded(p) /\ pass[p].r.branch = "leaf"
        /\ pass[p].at = 0
        /\ CertIn(Blob(Pre(p), certName)).ok
        /\ CertIn(Blob(Pre(p), certName)).cert.na = 10 * 24
        /\ CertIn(Blob(secret, caCertName)).cert.na = LongNotAfter
        /\ CertIn(Blob(secret, certName)).cert.na = certValidityDuration

\* C3: a pass that finds both the CA and the leaf valid 90 days ahead issues
\* nothing, does not ask the store to save, leaves the four blobs as they were
\* and does not exit, whatever RestartOnSecretRefresh is.
C3_NoOp ==
    \A p \in Procs :
        (/\ DidRefresh(p)
         /\ ~CAInvalidAt(Pre(p), pass[p].at)
         /\ ~LeafInvalidAt(Pre(p), pass[p].dns, pass[p].at)) =>
            /\ pass[p].r.branch = "none"
            /\ ~pass[p].r.rc.caIssued /\ ~pass[p].r.rc.leafIssued
            /\ pass[p].r.rc.saveCalls = 0
            /\ secret = Pre(p)
            /\ ~pass[p].r.exit /\ pass[p].stage # "exited"

\* a pass found a valid bundle with RestartOnSecretRefresh set and went on to
\* return
C3_Witness ==
    \E p \in Procs :
        /\ pass[p].stage = "returned" /\ pass[p].dns # ""
        /\ restart /\ running
        /\ pass[p].r.branch = "none"
        /\ ~pass[p].pre.nil

\* C4: when the rotation step runs again on the bundle the step before it left
\* in the store (that step met no issuance or store fault), at the same time and
\* for the same hostname and CA name, it issues nothing and saves nothing, and
\* the stored bundle stays what the first step left.
C4_Idempotent ==
    \A p \in Procs :
        (DidRefresh(p) /\ pass[p].again) =>
            /\ ~pass[p].r.rc.caIssued /\ ~pass[p].r.rc.leafIssued
            /\ pass[p].r.rc.saveCalls = 0
            /\ secret = Pre(p)

\* the second of two passes at one time read a bundle issued at that very time,
\* after a first pass that replaced an expiring CA or an empty bundle
C4_Witness ==
    \E p \in Procs :
        /\ DidRefresh(p) /\ pass[p].again
        /\ pass[p].r.branch = "none"
        /\ CertIn(Blob(Pre(p), caCertName)).cert.nb = pass[p].at - clockSkew
        /\ CertIn(Blob(Pre(p), certName)).cert.nb = pass[p].at - clockSkew

\* C5: a pass asks the store to save at most once; a pass after which the
\* stored bundle differs from what it read has saved exactly once; and every
\* save stores all four blobs together, the CA artifacts and the leaf the pass
\* worked with, also the ones the pass did not change.
C5_OneFullSave ==
    \A p \in Procs :
        DidRefresh(p) =>
            /\ pass[p].r.rc.saveCalls <= 1
            /\ secret # Pre(p) => pass[p].r.rc.saveCalls = 1 /\ pass[p].r.rc.saved
            /\ pass[p].r.rc.saved =>
                 /\ BlobNames \subseteq DOMAIN secret.m
                 /\ \A n \in BlobNames : len(secret.m[n]) # 0
                 /\ secret.m[caCertName] = pass[p].r.rc.ca.CertPEM
                 /\ secret.m[caKeyName] = pass[p].r.rc.ca.KeyPEM
                 /\ secret.m[certName] = pass[p].r.rc.cert
                 /\ secret.m[keyName] = pass[p].r.rc.key

\* a leaf-only rotation saved the CA blobs it had read along with the new leaf
C5_Witness ==
    \E p \in Procs :
        /\ DidRefresh(p) /\ pass[p].r.branch = "leaf" /\ pass[p].r.rc.saved
        /\ secret # Pre(p)
        /\ secret.m[caCertName] = Blob(Pre(p), caCertName)
        /\ ~Has(Pre(p), keyName)

\* C6: a pass whose rotation fails (issuance, CA reconstruction or store save)
\* leaves the stored bundle as it was, and the caBundle of the CRD it may still
\* update is the one the CRD had; whenever a pass sends a new caBundle to the
\* CRD it is the base64 of the ca.crt held by the store.
C6_FailedPassKeepsBundle ==
    \A p \in Procs :
        DidRefresh(p) =>
            /\ ~Succeeded(p) =>
                 /\ secret = Pre(p)
                 /\ crds[pass[p].req].caBundle = pass[p].crd0.caBundle
                 /\ pass[p].crdUpdated => pass[p].sent.caBundle = pass[p].crd0.caBundle
            /\ (pass[p].crdUpdated /\ pass[p].sent.caBundle # pass[p].crd0.caBundle) =>
                 pass[p].sent.caBundle = Base64(Blob(secret, caCertName))

\* the store rejected the save of a full rotation and the pass went on to
\* update the CRD
C6_Witness ==
    \E p \in Procs :
        /\ pass[p].stage = "returned" /\ pass[p].dns # ""
        /\ pass[p].r.branch = "full" /\ pass[p].r.rc.err = "update failed"
        /\ pass[p].r.rc.caIssued
        /\ pass[p].crdUpdated

\* C7 (as claimed): an error inside the rotation step is returned by
\* refreshCertIfNeeded, by updateCRD and by Reconcile, and the CRD is not
\* updated in that pass.
C7_ErrorsReported ==
    \A p \in Procs :
        (DidRefresh(p) /\ ~Succeeded(p)) =>
            /\ pass[p].r.err # ""
            /\ pass[p].stage = "returned" => pass[p].err # "" /\ ~pass[p].crdUpdated

\* C8: whatever the stored blobs are, an error of ValidCert makes validCACert or
\* validServerCert false and sends the pass into the full or the leaf-only
\* rotation; refreshCertIfNeeded returns no error, and the error Reconcile
\* returns is never the one ValidCert gave.
C8_ValidityErrorsDriveRotation ==
    \A p \in Procs :
        DidRefresh(p) =>
            LET t  == pass[p].at + lookaheadInterval
                ca == ValidCert(Blob(Pre(p), caCertName), Blob(Pre(p), caCertName),
                                Blob(Pre(p), caKeyName), CAName, t)
                lf == ValidCert(Blob(Pre(p), caCertName), Blob(Pre(p), certName),
                                Blob(Pre(p), keyName), pass[p].dns, t)
            IN  /\ ca.err # "" => ~ca.valid /\ pass[p].r.branch = "full"
                /\ (~Pre(p).nil /\ ca = Result(TRUE, "") /\ lf.err # "") =>
                     ~lf.valid /\ pass[p].r.branch = "leaf"
                /\ pass[p].r.err = ""
                /\ ca.err # "" => pass[p].err # ca.err
                /\ (ca.err = "" /\ lf.err # "") => pass[p].err # lf.err

\* a leaf signed by a key that is not the CA's was replaced in a pass that
\* returned without an error
C8_Witness ==
    \E p \in Procs :
        /\ pass[p].stage = "returned" /\ pass[p].dns # ""
        /\ LeafInvalidAt(Pre(p), pass[p].dns, pass[p].at)
        /\ CertIn(Blob(Pre(p), certName)).cert.signer = 3
        /\ pass[p].r.branch = "leaf" /\ pass[p].r.rc.saved
        /\ pass[p].err = ""

\* C9: a leaf whose NotAfter is earlier than now + 90 days is not valid for
\* validServerCert and the pass replaces it; a CA whose NotAfter is earlier than
\* now + 90 days is not valid for validCACert and the pass takes the full
\* rotation.
C9_ProactiveExpiry ==
    \A p \in Procs :
        DidRefresh(p) =>
            LET ca == CertIn(Blob(Pre(p), caCertName))
                lf == CertIn(Blob(Pre(p), certName))
            IN  /\ (lf.ok /\ pass[p].at + lookaheadInterval > lf.cert.na) =>
                     /\ ~validServerCert(Blob(Pre(p), caCertName), Blob(Pre(p), certName),
                                         Blob(Pre(p), keyName), pass[p].dns, pass[p].at)
                     /\ pass[p].r.branch # "none"
                /\ (ca.ok /\ pass[p].at + lookaheadInterval > ca.cert.na) =>
                     /\ ~validCACert(Blob(Pre(p), caCertName), Blob(Pre(p), caKeyName),
                                     CAName, pass[p].at)
                     /\ pass[p].r.branch = "full"

\* a leaf that still verified at the time of the pass, one hour short of the
\* lookahead margin, was replaced
C9_Witness ==
    \E p \in Procs :
        /\ DidRefresh(p) /\ pass[p].r.branch = "leaf" /\ pass[p].r.rc.saved
        /\ ValidCert(Blob(Pre(p), caCertName), Blob(Pre(p), certName),
                     Blob(Pre(p), keyName), pass[p].dns, pass[p].at).valid
        /\ CertIn(Blob(Pre(p), certName)).cert.na + 1 = pass[p].at + lookaheadInterval

\* the Secret holds no blob: nil Data or an empty map
EmptyBundle(data) == data.nil \/ DOMAIN data.m = {}

\* C12: a pass that reads a Secret with nil or empty Data takes the full
\* rotation; when that rotation meets no error, all four blobs are stored, the
\* stored CA certificate has IsCA set and is signed by its own key in its own
\* name, and the stored leaf is no CA and has the hostname of the pass as its
\* only DNS name.
C12_EmptyBundleFullIssuance ==
    \A p \in Procs :
        (DidRefresh(p) /\ EmptyBundle(Pre(p))) =>
            /\ pass[p].r.branch = "full"
            /\ Succeeded(p) =>
                 /\ pass[p].r.rc.caIssued /\ pass[p].r.rc.leafIssued /\ pass[p].r.rc.saved
                 /\ DOMAIN secret.m = BlobNames
                 /\ \A n \in BlobNames : len(secret.m[n]) # 0
                 /\ CertIn(secret.m[caCertName]).ok /\ CertIn(secret.m[certName]).ok
                 /\ CertIn(secret.m[caCertName]).cert.isCA
                 /\ CertIn(secret.m[caCertName]).cert.signer
                      = CertIn(secret.m[caCertName]).cert.pub
                 /\ CertIn(secret.m[caCertName]).cert.issuer
                      = CertIn(secret.m[caCertName]).cert.subject
                 /\ CertIn(secret.m[certName]).cert.dns = {pass[p].dns}
                 /\ ~CertIn(secret.m[certName]).cert.isCA

\* a pass read a Secret with nil Data and left a CA and a leaf for the service's
\* name in the store
C12_Witness ==
    \E p \in Procs :
        /\ DidRefresh(p) /\ Pre(p).nil /\ Succeeded(p)
        /\ pass[p].r.rc.saved
        /\ ~secret.nil /\ DOMAIN secret.m = BlobNames
        /\ CertIn(secret.m[caCertName]).cert.isCA
        /\ CertIn(secret.m[certName]).cert.dns = {Host1}

\* buildArtifactsFromSecret gives no CA for this Secret
Unbuildable(data) ==
    buildArtifactsFromSecret(data).err # "" \/ buildArtifactsFromSecret(data).nilBoth

\* C13 (as claimed): a pass that reads a bundle from which buildArtifactsFromSecret
\* cannot rebuild the CA takes the full rotation, and a pass that takes the
\* leaf-only rotation has its CA rebuilt without an error.
C13_UnusableCAFullRotation ==
    \A p \in Procs :
        DidRefresh(p) =>
            /\ Unbuildable(Pre(p)) => pass[p].r.branch = "full"
            /\ pass[p].r.branch = "leaf" =>
                 pass[p].r.rc.err \in {"", "crypto: key generation failed", "update failed"}

\* the pass of p rotated (fully or the leaf only) and the store saved the result
Rotated(p) == pass[p].r.branch \in {"full", "leaf"} /\ pass[p].r.rc.saved

\* C14: the process ends in a pass exactly when RestartOnSecretRefresh is set
\* and the pass rotated with its save accepted, and then it ends before the CRD
\* is touched; a pass without rotation or with a failed rotation does not end
\* it.  With the flag unset no pass ends the process, and a pass that rotated
\* goes on with the Secret it holds in memory: the CRD it updates gets the CA it
\* has just issued or kept.
C14_RestartHook ==
    \A p \in Procs :
        DidRefresh(p) =>
            /\ pass[p].stage = "exited" <=> (restart /\ Rotated(p))
            /\ pass[p].r.exit <=> (restart /\ Rotated(p))
            /\ pass[p].stage = "exited" =>
                 ~pass[p].crdUpdated /\ crds[pass[p].req] = pass[p].crd0
            /\ (~restart /\ Rotated(p) /\ pc[p] = "refreshed") =>
                 loc[p].need /\ loc[p].secret = secret
            /\ (~restart /\ Rotated(p) /\ pass[p].crdUpdated) =>
                 pass[p].sent.caBundle = Base64(pass[p].r.rc.ca.CertPEM)

\* with RestartOnSecretRefresh set, a leaf-only rotation was saved and the
\* process is down
C14_Witness ==
    \E p \in Procs :
        /\ restart /\ ~running
        /\ pass[p].stage = "exited"
        /\ pass[p].r.branch = "leaf" /\ pass[p].r.rc.saved
        /\ secret # Pre(p)

\* the passes of p and q read the same stored bundle, and it needs a rotation
ReadSameInvalid(p, q) ==
    /\ p # q /\ DidRefresh(p) /\ DidRefresh(q)
    /\ Pre(p) = Pre(q)
    /\ \/ CAInvalidAt(Pre(p), pass[p].at)
       \/ LeafInvalidAt(Pre(p), pass[p].dns, pass[p].at)

\* the passes that rotated and had their save accepted
Savers(ps) == {x \in ps : pass[x].r.rc.saved}

\* C15: two passes of different workers that read the same bundle while it is
\* invalid both take a rotation, each that gets its leaf issued asks the store
\* to save, and the bundle the store holds afterwards is the one a pass of the
\* two has written and had accepted (the bundle both read, when neither was).
C15_BothRotateAndWrite ==
    \A p, q \in Procs :
        ReadSameInvalid(p, q) =>
            /\ pass[p].r.branch # "none" /\ pass[q].r.branch # "none"
            /\ pass[p].r.branch = pass[q].r.branch
            /\ \A x \in {p, q} : pass[x].r.rc.leafIssued => pass[x].r.rc.saveCalls = 1
            /\ Savers({p, q}) = {} => secret = Pre(p)
            /\ Savers({p, q}) # {} => \E x \in Savers({p, q}) : secret = pass[x].r.rc.data

\* both workers read a bundle with an expiring CA, both issued a CA and a leaf
\* of their own and both asked the store to save; the second worker's write
\* came first and its bundle is the stored one
C15_Witness ==
    /\ ReadSameInvalid("w1", "w2")
    /\ ~Pre("w1").nil
    /\ pass["w1"].r.branch = "full"
    /\ pass["w1"].r.rc.saveCalls = 1 /\ pass["w2"].r.rc.saveCalls = 1
    /\ pass["w1"].r.rc.ca.CertPEM # pass["w2"].r.rc.ca.CertPEM
    /\ pass["w1"].r.rc.cert # pass["w2"].r.rc.cert
    /\ pass["w2"].r.rc.saved
    /\ secret = pass["w2"].r.rc.data
    /\ secret # pass["w1"].r.rc.data

\* the last pass for the CRD ended the process after a rotation
ExitedFor(req) ==
    \E p \in Procs : pass[p].stage = "exited" /\ pass[p].req = req /\ Rotated(p)

\* the CRD carries the CA certificate the store holds
Propagated(req) == crds[req].caBundle = Base64(Blob(secret, caCertName))

\* what C16 says of one state: the pass that follows an exit, for the same CRD
\* and hostname on the bundle the exiting pass saved, rotates nothing, asks for
\* no save, does not exit, and returns only after it has updated the CRD with
\* the base64 of the stored ca.crt; the pass that exited has not updated the CRD
NoRestartLoop ==
    \A p \in Procs :
        /\ (DidRefresh(p) /\ pass[p].afterExit) =>
              /\ pass[p].r.branch = "none"
              /\ pass[p].r.rc.saveCalls = 0 /\ secret = Pre(p)
              /\ ~pass[p].r.exit /\ pass[p].stage # "exited"
              /\ pass[p].stage = "returned" =>
                   /\ pass[p].err = "" /\ pass[p].crdUpdated
                   /\ pass[p].sent.caBundle = Base64(Blob(secret, caCertName))
                   /\ Propagated(pass[p].req)
        /\ pass[p].stage = "exited" => ~pass[p].crdUpdated

\* C16: with the store and the CRD accepting every update, the pass after an
\* exit is a no-op that does not exit again and writes the stored CA into the
\* CRD, and whenever a pass has ended the process after a rotation the CRD
\* comes to carry the stored CA.
C16_NoRestartLoop ==
    /\ []NoRestartLoop
    /\ \A req \in CrdNames : ExitedFor(req) ~> (running /\ Propagated(req))

\* the pass after an exit has returned: the CRD carries the CA that the exiting
\* pass issued, the store holds what that pass saved, and the process runs
C16_Witness ==
    \E p \in Procs :
        /\ restart /\ running
        /\ pass[p].stage = "returned" /\ pass[p].afterExit
        /\ pass[p].r.branch = "none"
        /\ pass[p].crd0.caBundle = NoBundle
        /\ Propagated(pass[p].req)
        /\ CertIn(Blob(secret, caCertName)).cert.nb = pass[p].at - clockSkew

\* the four blobs are there, each key is its certificate's, and the leaf is
\* signed by the CA's key in the CA's name
Consistent(data) ==
    /\ ~data.nil /\ BlobNames \subseteq DOMAIN data.m
    /\ X509KeyPair(data.m[caCertName], data.m[caKeyName]) = ""
    /\ X509KeyPair(data.m[certName], data.m[keyName]) = ""
    /\ CertIn(data.m[certName]).cert.signer = CertIn(data.m[caCertName]).cert.pub
    /\ CertIn(data.m[certName]).cert.issuer = CertIn(data.m[caCertName]).cert.subject

\* C17: whatever passes have run (succeeded, failed, ended by the restart hook,
\* interleaved with a pass of the other worker), every step that changes the
\* stored Secret stores a bundle in which ca.key is the key of ca.crt, tls.key
\* the key of tls.crt, and tls.crt is signed by the stored CA.
C17_SavedBundleConsistent ==
    [][secret' # secret => Consistent(secret')]_vars

\* two workers read a bundle whose leaf was not signed by its CA; one of them
\* had its leaf-only rotation saved, the other's save was turned down, and the
\* stored bundle is consistent
C17_Witness ==
    \E p, q \in Procs :
        /\ p # q /\ DidRefresh(p) /\ DidRefresh(q)
        /\ Pre(p) = Pre(q) /\ ~Pre(p).nil /\ ~Consistent(Pre(p))
        /\ pass[p].r.branch = "leaf" /\ pass[p].r.rc.saved
        /\ pass[q].r.rc.saveCalls = 1 /\ ~pass[q].r.rc.saved
        /\ secret = pass[p].r.rc.data
        /\ Consistent(secret)

\* C18 (as claimed): with one worker, whenever updateCRD has returned without
\* an error, the pass has sent the CRD to the store with the base64 of the
\* stored ca.crt as its caBundle, and the stored CRD carries it.
C18_CaBundleIsStoredCA ==
    \A p \in Procs :
        (pass[p].stage = "returned" /\ DidRefresh(p) /\ pass[p].err = "") =>
            /\ pass[p].crdUpdated
            /\ pass[p].sent.caBundle = Base64(Blob(secret, caCertName))
            /\ crds[pass[p].req].caBundle = Base64(Blob(secret, caCertName))

\* the errors of updateCRD for the wrong number of services or Secrets
CountErrors == {"multiple services match labels", "multiple secrets match labels"}

\* C19: a pass for a listed CRD without spec.conversion.webhook.clientConfig
\* returns an error, the field-not-found error when one service and one Secret
\* were found, without having run refreshCertIfNeeded: nothing is issued, the
\* store is not asked to save, the stored bundle and the stored CRD stay as
\* they were, and the process does not exit.
C19_FieldNotFound ==
    \A p \in Procs :
        (/\ pass[p].stage # "none"
         /\ contains(CrdResources, pass[p].req)
         /\ ~pass[p].crd0.clientConfig) =>
            /\ pass[p].stage = "returned"
            /\ pass[p].err # ""
            /\ pass[p].err \notin CountErrors => pass[p].err = FieldNotFound
            /\ ~DidRefresh(p)
            /\ pass[p].r.branch = "none"
            /\ ~pass[p].r.rc.caIssued /\ ~pass[p].r.rc.leafIssued
            /\ pass[p].r.rc.saveCalls = 0
            /\ secret = Pre(p)
            /\ ~pass[p].crdUpdated /\ crds[pass[p].req] = pass[p].crd0
            /\ pc[p] = "idle" /\ ~pass[p].r.exit

\* a pass for the CRD without clientConfig returned field-not-found with
\* RestartOnSecretRefresh set and a stored CA that was due for rotation; the
\* bundle is as it was and the process runs
C19_Witness ==
    \E p \in Procs :
        /\ pass[p].stage = "returned" /\ pass[p].req = "legacystores"
        /\ pass[p].err = FieldNotFound
        /\ restart /\ running
        /\ CAInvalidAt(Pre(p), now)
        /\ secret = Pre(p)
        /\ crds["legacystores"] = pass[p].crd0

\* the pass of p left the stored Secret and the stored CRD as it found them and
\* did not come to the rotation step
Untouched(p) ==
    /\ pass[p].stage = "returned"
    /\ ~DidRefresh(p)
    /\ pass[p].r.rc.saveCalls = 0
    /\ secret = Pre(p)
    /\ ~pass[p].crdUpdated /\ crds[pass[p].req] = pass[p].crd0

\* the name is one of Reconciler.CrdResources
Listed(req) == req \in {CrdResources[i] : i \in 1..Len(CrdResources)}

\* C20: a pass for a listed CRD that did not find exactly one service returns
\* the services error, one that found one service and not exactly one Secret
\* returns the secrets error, and both leave the stored Secret and the CRD
\* alone; a pass for a CRD that is not listed returns nil without a List call
\* and leaves both alone; so a pass that reached the rotation step, updated the
\* CRD or changed the Secret was for a listed CRD and found one service and one
\* Secret.
C20_ExactlyOneServiceAndSecret ==
    \A p \in Procs :
        pass[p].stage # "none" =>
            /\ (Listed(pass[p].req) /\ pass[p].nSvc # 1) =>
                 pass[p].err = "multiple services match labels" /\ Untouched(p)
            /\ (Listed(pass[p].req) /\ pass[p].nSvc = 1 /\ pass[p].nSec # 1) =>
                 pass[p].err = "multiple secrets match labels" /\ Untouched(p)
            /\ ~Listed(pass[p].req) =>
                 pass[p].err = "" /\ pass[p].nSvc = NotListed /\ Untouched(p)
            /\ (DidRefresh(p) \/ pass[p].crdUpdated \/ secret # Pre(p)) =>
                 /\ Listed(pass[p].req)
                 /\ pass[p].nSvc = 1 /\ pass[p].nSec = 1

\* a pass for a listed CRD found one service and two Secrets and returned the
\* error; the stored bundle, which was due for rotation, is as it was
C20_Witness ==
    \E p \in Procs :
        /\ pass[p].req = "externalsecrets"
        /\ pass[p].nSvc = 1 /\ pass[p].nSec = 2
        /\ pass[p].err = "multiple secrets match labels"
        /\ Untouched(p)
        /\ CAInvalidAt(Pre(p), now)

\* ------------------------------------------------------------ the certificate functions alone

\* SpecCert applies CreateCACert, CreateCertPEM and validServerCert to inputs
\* drawn from small sets: CAs and leaves issued now or five years from now, as
\* refreshCerts issues them (from an hour before to ten years after), checked
\* for either hostname at the start and around the last hour at which a certificate
\* issued at 0 still passes the lookahead check.
MaxCAs == 2
MaxLeaves == 1

IssueTimes == {0, 5 * 365 * 24}
CheckTimes ==
    {0, certValidityDuration - lookaheadInterval, certValidityDuration - lookaheadInterval + 1}
Hosts == {Host1, Host2}

CertKey == Cardinality(issuedCAs) + Cardinality(issuedLeaves) + 1

InitCert ==
    /\ now = 0
    /\ ticks = 0
    /\ secret = NilData
    /\ crds = InitCrds
    /\ restart = FALSE
    /\ dnsName = ""
    /\ nextKey = FirstKey
    /\ running = TRUE
    /\ pc = [p \in Procs |-> "idle"]
    /\ loc = [p \in Procs |-> NoLoc]
    /\ pass = [p \in Procs |-> NoPass]
    /\ prev = NoPrev
    /\ issuedCAs = {}
    /\ issuedLeaves = {}
    /\ verdict = NoVerdict

IssueCA(t) ==
    /\ Cardinality(issuedCAs) < MaxCAs
    /\ issuedCAs' = issuedCAs \cup
          {CreateCACert(t - clockSkew, t + certValidityDuration, CertKey, FALSE).art}
    /\ UNCHANGED <<issuedLeaves, verdict, ctrlVars>>

IssueLeaf(ca, t, host) ==
    /\ Cardinality(issuedLeaves) < MaxLeaves
    /\ issuedLeaves' = issuedLeaves \cup
          {CreateCertPEM(ca, t - clockSkew, t + certValidityDuration, CertKey, host, FALSE)}
    /\ UNCHANGED <<issuedCAs, verdict, ctrlVars>>

CheckLeaf(ca, leaf, host, t) ==
    /\ verdict' = [set |-> TRUE, caCert |-> ca.CertPEM, cert |-> leaf.cert,
                   key |-> leaf.key, dnsName |-> host, now |-> t,
                   res |-> ValidCert(ca.CertPEM, leaf.cert, leaf.key, host, lookaheadTime(t)),
                   ok |-> validServerCert(ca.CertPEM, leaf.cert, leaf.key, host, t)]
    /\ UNCHANGED <<issuedCAs, issuedLeaves, ctrlVars>>

NextCert ==
    \/ \E t \in IssueTimes : IssueCA(t)
    \/ \E ca \in issuedCAs, t \in IssueTimes, host \in Hosts : IssueLeaf(ca, t, host)
    \/ \E ca \in issuedCAs, leaf \in issuedLeaves, host \in Hosts, t \in CheckTimes :
          CheckLeaf(ca, leaf, host, t)

SpecCert == InitCert /\ [][NextCert]_vars

\* the tuple of the last check is well-formed: a CA certificate, a leaf signed
\* by that CA in its name, the leaf's own key, a hostname among the leaf's DNS
\* names
WellFormed(v) ==
    /\ CertIn(v.caCert).ok /\ CertIn(v.cert).ok
    /\ CertIn(v.caCert).cert.isCA
    /\ CertIn(v.cert).cert.signer = CertIn(v.caCert).cert.pub
    /\ CertIn(v.cert).cert.issuer = CertIn(v.caCert).cert.subject
    /\ X509KeyPair(v.cert, v.key) = ""
    /\ v.dnsName \in CertIn(v.cert).cert.dns

InLeafWindow(v) ==
    /\ CertIn(v.cert).cert.nb <= v.now
    /\ v.now + lookaheadInterval <= CertIn(v.cert).cert.na

\* C10 (as claimed): for a well-formed tuple checked at a time with
\* NotBefore <= now and now + 90 days <= NotAfter of the leaf, the validity
\* check gives true and no error.
C10_ValidInLeafWindow ==
    (verdict.set /\ WellFormed(verdict) /\ InLeafWindow(verdict)) =>
        verdict.res = Result(TRUE, "") /\ verdict.ok

\* C10 (amended): the same, when the CA certificate too is within its validity
\* window at now + 90 days.
C10_ValidInBothWindows ==
    (/\ verdict.set /\ WellFormed(verdict) /\ InLeafWindow(verdict)
     /\ InWindow(CertIn(verdict.caCert).cert, verdict.now + lookaheadInterval)) =>
        verdict.res = Result(TRUE, "") /\ verdict.ok

\* a leaf issued five years after its CA was found valid on the last hour the
\* CA passes the lookahead check
C10_Witness ==
    /\ verdict.set /\ WellFormed(verdict) /\ InLeafWindow(verdict)
    /\ verdict.res = Result(TRUE, "") /\ verdict.ok
    /\ CertIn(verdict.caCert).cert.na = verdict.now + lookaheadInterval
    /\ CertIn(verdict.cert).cert.na > CertIn(verdict.caCert).cert.na

\* C11: a leaf that CreateCertPEM issued under one CA is not valid for ValidCert
\* against the certificate of another CA that CreateCACert made, for every
\* hostname and time, although both CAs carry the same name and serial number.
C11_ForeignCARejected ==
    \A x \in issuedCAs :
        (/\ verdict.set
         /\ x.CertPEM # verdict.caCert
         /\ CertIn(verdict.cert).cert.signer = x.Key) =>
            /\ ~verdict.res.valid /\ verdict.res.err # ""
            /\ ~verdict.ok

\* a leaf of one CA was checked against another CA of the same name and serial
\* number, for the leaf's hostname, at a time when both certificates are within
\* their validity, and was turned down for its signer alone
C11_Witness ==
    \E x \in issuedCAs :
        /\ verdict.set
        /\ x.CertPEM # verdict.caCert
        /\ CertIn(verdict.cert).cert.signer = x.Key
        /\ CertIn(verdict.caCert).cert.subject = x.Cert.subject
        /\ CertIn(verdict.caCert).cert.serial = x.Cert.serial
        /\ verdict.dnsName \in CertIn(verdict.cert).cert.dns
        /\ InWindow(CertIn(verdict.cert).cert, verdict.now + lookaheadInterval)
        /\ InWindow(CertIn(verdict.caCert).cert, verdict.now + lookaheadInterval)
        /\ verdict.res = Result(FALSE, "x509: certificate signed by unknown authority")

====
